---- MODULE Spec2Model ----
(***************************************************************************)
(* A model of CentralScheduler (src/central_scheduler.py): the scheduling  *)
(* pipeline (batch_submit / _schedule_task), the submission worker         *)
(* (_monitor_tasks), the endpoint watchdog with its backup evaluator       *)
(* (_check_endpoints / _send_backups_if_needed), the status ingress        *)
(* (log_status / _record_completed / get_status) and block.                *)
(*                                                                         *)
(* The strategy, the predictors, the transfer manager and the executor are *)
(* other modules; what they return is an input of the action that calls    *)
(* them, drawn from a small set.  Fields that the scheduler stores but     *)
(* never reads back (time_requested, ATA, the runtime of a result) are not *)
(* carried.                                                                *)
(***************************************************************************)
EXTENDS Integers, Sequences, FiniteSets, TLC

(***************************************************************************)
(* Bounds of the model.                                                    *)
(***************************************************************************)
\* client task ids minted by _schedule_task (uuid4 values, here 1, 2, ...)
MaxTasks == 1
\* the largest max_backups a scheduler is constructed with
MaxBackups == 1
\* number of ticks of the clock after the scheduler was constructed
Horizon == 3
\* the longest duration a predictor returns (runtime, transfer time)
MaxDur == 1
\* the largest number of tasks in one batch_submit call
MaxBatch == 2
\* client task ids minted in the specifications about two tasks
MaxPair == 2

(***************************************************************************)
(* Program constants and the registered endpoints.                         *)
(***************************************************************************)
HEARTBEAT_THRESHOLD == 75
BLOCK_ERRORS == {"ModuleNotFoundError", "MemoryError"}
\* default of the constructor's backup_delay_threshold
backup_delay_threshold == 2

\* the endpoint maps a scheduler is constructed with
EndpointConfigs == {{"A"}, {"A", "B"}}
\* an endpoint id that is not registered (an argument of block)
UnknownEndpoint == "X"
Funcs == {"f"}
Headers == {"H1"}
\* the headers of two clients
TwoHeaders == {"H1", "H2"}
\* the packages a function may import
Pkgs == {"numpy"}
\* the endpoints whose config has a 'launch_time', and its value in seconds
EndpointsWithLaunchTime == {"A"}
launch_time == 5
\* a payload is opaque but for the '_globus_files' list the serializer extracts
Payloads == {[globus_files |-> <<>>], [globus_files |-> <<"file1">>]}

\* time.time() when the scheduler is constructed: well past the epoch, so that
\* the initial last_result_time of 0.0 is older than any heartbeat threshold
StartTime == HEARTBEAT_THRESHOLD + 25
Tasks == 1..(IF MaxPair > MaxTasks THEN MaxPair ELSE MaxTasks)
\* real task ids the executor hands out: one per dispatch at most
RealIds == 1..(Cardinality(Tasks) * (MaxBackups + 2))
Durs == 1..MaxDur
\* task_id=None of _schedule_task, transfer_num=None of a scheduled record
NoTask == 0
NoTransfer == 0

VARIABLES
    endpoints,             \* self._endpoints (its keys)
    max_backups,           \* self.max_backups
    now,                   \* time.time()
    blocked,               \* self._blocked
    dead_endpoints,        \* self._dead_endpoints
    temperature,           \* self.temperature
    last_result_time,      \* self.last_result_time
    task_id_translation,   \* self._task_id_translation
    task_info,             \* self._task_info
    endpoints_sent_to,     \* self._endpoints_sent_to
    latest_status,         \* self._latest_status
    pending,               \* self._pending
    pending_by_endpoint,   \* self._pending_by_endpoint
    last_task_ETA,         \* self._last_task_ETA
    queue_error,           \* self._queue_error
    transfer_ETAs,         \* self._transfer_ETAs
    scheduled_tasks,       \* self._scheduled_tasks (the queue)
    scheduled,             \* the local map of _monitor_tasks, in insertion order
    task_watchdog,         \* the _monitor_tasks thread: "running" or "crashed"
    endpoint_watchdog,     \* the _check_endpoints thread: "running" or "crashed"
    transfers_started,     \* transfer manager: number of handles handed out
    transfers_complete,    \* transfer manager: handles whose is_complete is true
    executor_submitted,    \* executor: number of real task ids handed out
    discarded,             \* per client task id: dispatch records the worker discarded
    ingress,               \* per ingress thread: its position inside block or log_status
    imports,               \* self._imports
    imports_required,      \* self._imports_required
    launches,              \* per endpoint: dispatches that found it COLD since it last turned COLD
    exclude_all,           \* the last choose_endpoint call had every endpoint in its exclude
    execution_log,         \* self.execution_log: per real id, the entries appended for it
    runtime_updates,       \* per real id: the self.runtime.update calls made for it
    posted,                \* the last POST /submit: its headers, the headers of the tasks in it
    worker                 \* the _monitor_tasks thread: its position in the loop of lines 423-449

cfgVars == <<endpoints, max_backups>>
epVars == <<dead_endpoints, temperature, last_result_time>>
taskVars == <<task_id_translation, task_info, endpoints_sent_to>>
pendVars == <<pending, pending_by_endpoint>>
etaVars == <<last_task_ETA, queue_error>>
workerVars == <<scheduled, task_watchdog, executor_submitted, discarded>>
xferVars == <<transfers_started, transfers_complete>>
impVars == <<imports, imports_required>>
logVars == <<execution_log, runtime_updates>>
\* what block, the clock and the transfer manager leave alone
quietVars == <<imports, imports_required, launches, exclude_all, posted, worker,
               execution_log, runtime_updates>>

vars == <<endpoints, max_backups, now, blocked, dead_endpoints, temperature, last_result_time,
          task_id_translation, task_info, endpoints_sent_to, latest_status,
          pending, pending_by_endpoint, last_task_ETA, queue_error, transfer_ETAs,
          scheduled_tasks, scheduled, task_watchdog, endpoint_watchdog,
          transfers_started, transfers_complete, executor_submitted, discarded,
          ingress, imports, imports_required, launches, exclude_all, posted, worker,
          execution_log, runtime_updates>>

(***************************************************************************)
(* Helpers for dicts, lists and sets.                                      *)
(***************************************************************************)
\* del d[k]
DictDel(d, k) == [x \in (DOMAIN d) \ {k} |-> d[x]]
\* d[k] = v
DictPut(d, k, v) == [x \in (DOMAIN d) \cup {k} |-> IF x = k THEN v ELSE d[x]]
\* set(list)
ListSet(l) == {l[i] : i \in 1..Len(l)}
\* the orders in which a set can be iterated
Orders(S) == {s \in [1..Cardinality(S) -> S] : \A i, j \in 1..Cardinality(S) : s[i] = s[j] => i = j}
Max(a, b) == IF a >= b THEN a ELSE b

(***************************************************************************)
(* Status messages: the keys of the dict that log_status looks at.         *)
(***************************************************************************)
Data == [result : BOOLEAN,
         exception : {"none", "ValueError", "ModuleNotFoundError", "MemoryError"},
         status : {"none", "PENDING", "FAILED"},
         imports : SUBSET Pkgs]
StatusPENDING == [result |-> FALSE, exception |-> "none", status |-> "PENDING",
                  imports |-> {}]
\* the messages the executor delivers: PENDING, a result (of a function that
\* imported nothing), an exception of each kind, and a message of an
\* unexpected shape
DataInputs ==
    {StatusPENDING,
     [result |-> TRUE, exception |-> "none", status |-> "none", imports |-> {}],
     [result |-> FALSE, exception |-> "ValueError", status |-> "none", imports |-> {}],
     [result |-> FALSE, exception |-> "ModuleNotFoundError", status |-> "none", imports |-> {}],
     [result |-> FALSE, exception |-> "MemoryError", status |-> "none", imports |-> {}],
     [result |-> FALSE, exception |-> "none", status |-> "FAILED", imports |-> {}]}
\* PENDING and the results, with the imports they report
ResultInputs ==
    {StatusPENDING} \cup
    {[result |-> TRUE, exception |-> "none", status |-> "none", imports |-> pk] :
        pk \in SUBSET Pkgs}
\* PENDING, a result and an exception that does not block
PlainInputs ==
    {d \in DataInputs : d.status # "FAILED" /\ d.exception \notin BLOCK_ERRORS}
\* what get_status returns when it falls off its first branch
PyNone == [result |-> FALSE, exception |-> "none", status |-> "<None>", imports |-> {}]

\* the ingress threads that may be inside block or log_status at the same time
Threads == {"T1", "T2"}
\* an ingress thread outside of any call
IngressIdle == [pc |-> "idle", func |-> "f", endpoint |-> "A", real_task_id |-> 0,
                task_id |-> 0, data |-> StatusPENDING]

(***************************************************************************)
(* The strategy and the predictors (strategies.py, predictors.py).         *)
(***************************************************************************)
\* strategy.choose_endpoint(func, exclude=...): the endpoints it may return.
\* It honours the exclusion set; with every endpoint excluded it has nothing
\* to return and the call raises.
choose_endpoint(exclude) == endpoints \ exclude

\* What one _schedule_task call gets from its collaborators: the endpoint the
\* strategy chooses, the duration behind strategy.predict_ETA, whether
\* transfer() returns a handle, the duration behind self.transfer_time(...).
Choices == [endpoint : endpoints, dur : Durs, handle : BOOLEAN, tdur : Durs]
ChoicesFor(files) ==
    IF Len(files) > 0 THEN Choices
    ELSE {c \in Choices : c.handle = FALSE /\ c.tdur = 1}

(***************************************************************************)
(* _schedule_task (lines 169-231), as a function of the scheduler state it *)
(* reads and writes.  S.raised: the call raised; S.valid: the inputs c are *)
(* ones the collaborators can return.                                      *)
(***************************************************************************)
SchedState ==
    [task_id_translation |-> task_id_translation, task_info |-> task_info,
     endpoints_sent_to |-> endpoints_sent_to, transfer_ETAs |-> transfer_ETAs,
     last_task_ETA |-> last_task_ETA, temperature |-> temperature,
     scheduled_tasks |-> scheduled_tasks, transfers_started |-> transfers_started,
     launches |-> launches, exclude_all |-> exclude_all,
     raised |-> FALSE, valid |-> TRUE, last |-> NoTask]

\* faulty variants of line 196: one term of the union is forgotten
exclude_set_no_sent(blk, sent) == blk
exclude_set_no_blocked(blk, sent) == ListSet(sent)
\* line 196: exclude = self._blocked[func] | set(self._endpoints_sent_to[task_id])
exclude_set(blk, sent) == blk \cup ListSet(sent)

\* faulty variant of lines 222-223: a cold endpoint stays cold
warming_forgets(temp) == temp
\* lines 222-223: a cold endpoint that is chosen is marked as warming
warming(temp) == IF temp = "COLD" THEN "WARMING" ELSE temp

schedule_task(S, func, payload, headers, files, task_id_arg, c) ==
    LET task_id == IF task_id_arg = NoTask
                   THEN Cardinality(DOMAIN S.task_id_translation) + 1
                   ELSE task_id_arg
        info == [function_id |-> func, payload |-> payload, headers |-> headers,
                 files |-> files]
        S1 == IF task_id_arg = NoTask
              THEN [S EXCEPT !.task_id_translation = DictPut(@, task_id, {}),
                             !.task_info = DictPut(@, task_id, info)]
              ELSE S
        exclude == exclude_set(blocked[func], S1.endpoints_sent_to[task_id])
        endpoint == c.endpoint
        ETA == now + c.dur
        transfer_num == IF Len(files) > 0 /\ c.handle
                        THEN S1.transfers_started + 1 ELSE NoTransfer
    IN  IF choose_endpoint(exclude) = {}
        THEN [S1 EXCEPT !.raised = TRUE, !.exclude_all = (endpoints \subseteq exclude)]
        ELSE IF endpoint \notin choose_endpoint(exclude) \/ c \notin ChoicesFor(files)
        THEN [S1 EXCEPT !.valid = FALSE]
        ELSE [S1 EXCEPT
                !.transfers_started = IF transfer_num # NoTransfer THEN @ + 1 ELSE @,
                !.transfer_ETAs[endpoint] =
                    IF transfer_num # NoTransfer
                    THEN DictPut(@, transfer_num, now + c.tdur) ELSE @,
                !.last_task_ETA[endpoint] = IF Len(files) > 0 THEN @ ELSE ETA,
                !.temperature[endpoint] = warming(@),
                !.launches[endpoint] = IF S1.temperature[endpoint] = "COLD" THEN @ + 1 ELSE @,
                !.exclude_all = (endpoints \subseteq exclude),
                !.endpoints_sent_to[task_id] = Append(@, endpoint),
                !.scheduled_tasks = Append(@, <<task_id, endpoint, transfer_num>>),
                !.last = task_id]

\* the scheduler state after a sequence of _schedule_task calls
SchedCommit(S) ==
    /\ S.valid
    /\ task_id_translation' = S.task_id_translation
    /\ task_info' = S.task_info
    /\ endpoints_sent_to' = S.endpoints_sent_to
    /\ transfer_ETAs' = S.transfer_ETAs
    /\ last_task_ETA' = S.last_task_ETA
    /\ temperature' = S.temperature
    /\ scheduled_tasks' = S.scheduled_tasks
    /\ transfers_started' = S.transfers_started
    /\ launches' = S.launches
    /\ exclude_all' = S.exclude_all

(***************************************************************************)
(* batch_submit (lines 149-167): one _schedule_task call per task, in      *)
(* order; an exception of a call ends the loop and reaches the caller.     *)
(***************************************************************************)
RECURSIVE batch_loop(_, _, _, _, _)
batch_loop(S, tasks, headers, cs, i) ==
    IF i > Len(tasks) \/ S.raised \/ ~S.valid THEN S
    ELSE batch_loop(schedule_task(S, tasks[i][1], tasks[i][2], headers,
                                  tasks[i][2].globus_files, NoTask, cs[i]),
                    tasks, headers, cs, i + 1)

\* the batches of up to MaxBatch tasks with payloads of the set `payloads`
BatchInputsOf(payloads) == UNION {[1..n -> Funcs \X payloads] : n \in 1..MaxBatch}
BatchInputs == BatchInputsOf(Payloads)

batch_submit(tasks, headers, cs) ==
    /\ Cardinality(DOMAIN task_id_translation) + Len(tasks) <= Cardinality(Tasks)
    /\ SchedCommit(batch_loop(SchedState, tasks, headers, cs, 1))
    /\ UNCHANGED <<cfgVars, now, blocked, dead_endpoints, last_result_time,
                   latest_status, pendVars, queue_error, workerVars,
                   endpoint_watchdog, transfers_complete, ingress,
                   impVars, posted, worker, logVars>>

\* the batch_submit calls of clients that submit up to `limit` tasks in all,
\* with payloads of the set `payloads` and headers of the set `hdrs`
BatchSubmitOf(limit, payloads, hdrs) ==
    \E tasks \in BatchInputsOf(payloads), headers \in hdrs :
        /\ Cardinality(DOMAIN task_id_translation) + Len(tasks) <= limit
        /\ \E cs \in [1..Len(tasks) -> Choices] :
              /\ \A i \in 1..Len(tasks) : cs[i] \in ChoicesFor(tasks[i][2].globus_files)
              /\ batch_submit(tasks, headers, cs)

BatchSubmit == BatchSubmitOf(MaxTasks, Payloads, Headers)

(***************************************************************************)
(* block (lines 123-142).                                                  *)
(***************************************************************************)
\* faulty variant of line 141: the endpoint is not added
block_result_forgets(blk, func, endpoint) ==
    IF endpoint \notin endpoints
    THEN [status |-> "Failed", reason |-> "Unknown endpoint", blocked |-> blk]
    ELSE IF Cardinality(blk[func]) = Cardinality(endpoints) - 1
    THEN [status |-> "Failed", reason |-> "Cannot block all endpoints", blocked |-> blk]
    ELSE [status |-> "Success", reason |-> "", blocked |-> blk]
\* block as a function of self._blocked: what it returns and what it leaves
block_result(blk, func, endpoint) ==
    IF endpoint \notin endpoints
    THEN [status |-> "Failed", reason |-> "Unknown endpoint", blocked |-> blk]
    ELSE IF Cardinality(blk[func]) = Cardinality(endpoints) - 1
    THEN [status |-> "Failed", reason |-> "Cannot block all endpoints", blocked |-> blk]
    ELSE [status |-> "Success", reason |-> "",
          blocked |-> [blk EXCEPT ![func] = @ \cup {endpoint}]]

\* a block call that no other thread interleaves with
block(func, endpoint) ==
    /\ blocked' = block_result(blocked, func, endpoint).blocked
    /\ UNCHANGED <<cfgVars, now, epVars, taskVars, latest_status, pendVars, etaVars,
                   transfer_ETAs, scheduled_tasks, workerVars, endpoint_watchdog,
                   xferVars, ingress, quietVars>>

Block == \E func \in Funcs, endpoint \in endpoints \cup {UnknownEndpoint} : block(func, endpoint)

\* block on an ingress thread while other threads run: the tests of lines 124
\* and 131 are one step, the add of line 141 is a later step.  The code takes
\* no lock between them.
block_check(th, func, endpoint) ==
    /\ ingress[th].pc = "idle"
    /\ ingress' = IF block_result(blocked, func, endpoint).status = "Success"
                  THEN [ingress EXCEPT ![th] = [IngressIdle EXCEPT !.pc = "add",
                                                    !.func = func, !.endpoint = endpoint]]
                  ELSE ingress
    /\ UNCHANGED <<cfgVars, now, blocked, epVars, taskVars, latest_status, pendVars,
                   etaVars, transfer_ETAs, scheduled_tasks, workerVars,
                   endpoint_watchdog, xferVars, quietVars>>

block_add(th) ==
    /\ ingress[th].pc = "add"
    /\ blocked' = [blocked EXCEPT ![ingress[th].func] = @ \cup {ingress[th].endpoint}]
    /\ ingress' = [ingress EXCEPT ![th] = IngressIdle]
    /\ UNCHANGED <<cfgVars, now, epVars, taskVars, latest_status, pendVars, etaVars,
                   transfer_ETAs, scheduled_tasks, workerVars, endpoint_watchdog,
                   xferVars, quietVars>>

BlockCheck ==
    \E th \in Threads, func \in Funcs, endpoint \in endpoints \cup {UnknownEndpoint} :
        block_check(th, func, endpoint)

BlockAdd == \E th \in Threads : block_add(th)

(***************************************************************************)
(* log_status and _record_completed (lines 236-280, 303-329).              *)
(***************************************************************************)
\* faulty variant of lines 245-246: the latest status is always overwritten
sticky_overwrite_always(ls, task_id) == TRUE
\* lines 245-246: the latest status may be overwritten
sticky_overwrite(ls, task_id) ==
    task_id \notin DOMAIN ls \/ ls[task_id].status = "PENDING"

\* faulty variant of line 326: the real id stays in pending
stop_tracking_forgets(p, real_task_id) == p
\* line 326: del self._pending[real_task_id]
stop_tracking(p, real_task_id) == DictDel(p, real_task_id)

\* line 327: set.remove raises KeyError for a real id that is not in the
\* pending set of its endpoint
record_completed_raises(real_task_id) ==
    real_task_id \notin pending_by_endpoint[pending[real_task_id].endpoint_id]

\* _record_completed for a real id in pending.  When line 327 raises, the
\* writes of lines 308-326 are done and line 329 is not reached.
record_completed(real_task_id) ==
    LET info == pending[real_task_id]
        endpoint == info.endpoint_id
        last == Cardinality(pending_by_endpoint[endpoint]) = 1
    IN  /\ last_task_ETA' = IF last THEN [last_task_ETA EXCEPT ![endpoint] = 0]
                            ELSE last_task_ETA
        /\ execution_log' = [execution_log EXCEPT ![real_task_id] = @ + 1]
        /\ queue_error' = [queue_error EXCEPT ![endpoint] =
                               IF last THEN 0 ELSE now - info.ETA]
        /\ pending' = stop_tracking(pending, real_task_id)
        /\ pending_by_endpoint' = [pending_by_endpoint EXCEPT ![endpoint] = @ \ {real_task_id}]
        /\ task_info' = IF info.task_id \in DOMAIN task_info
                           /\ ~record_completed_raises(real_task_id)
                        THEN DictDel(task_info, info.task_id) ELSE task_info

\* lines 256-257: self.runtime.update(self._pending[real_task_id], runtime)
runtime_update(ru, real_task_id) == [ru EXCEPT ![real_task_id] = @ + 1]

\* lines 258-260 for a call with a result.  A KeyError (the real id left
\* pending in the meantime: line 304; line 327) ends the call.
result_completion(real_task_id, data, endpoint) ==
    IF real_task_id \notin DOMAIN pending
    THEN UNCHANGED <<last_result_time, imports, task_info, pendVars, etaVars, execution_log>>
    ELSE /\ record_completed(real_task_id)
         /\ last_result_time' = IF record_completed_raises(real_task_id)
                                THEN last_result_time
                                ELSE [last_result_time EXCEPT ![endpoint] = now]
         /\ imports' = IF record_completed_raises(real_task_id)
                       THEN imports
                       ELSE [imports EXCEPT ![endpoint] = data.imports]

\* lines 249-280 for a call that found real_task_id in pending at line 237
\* and read func and endpoint at lines 242-243.  A KeyError (the real id left
\* pending in the meantime: lines 256 and 304; line 327) ends the call.
log_status_tail(real_task_id, data, func, endpoint) ==
    IF data.result
    THEN /\ runtime_updates' = IF real_task_id \in DOMAIN pending
                               THEN runtime_update(runtime_updates, real_task_id)
                               ELSE runtime_updates
         /\ result_completion(real_task_id, data, endpoint)
         /\ UNCHANGED blocked
    ELSE IF data.exception # "none"
    THEN /\ blocked' = IF data.exception \in BLOCK_ERRORS
                       THEN block_result(blocked, func, endpoint).blocked
                       ELSE blocked
         /\ IF real_task_id \notin DOMAIN pending
            THEN UNCHANGED <<last_result_time, task_info, pendVars, etaVars, execution_log>>
            ELSE /\ record_completed(real_task_id)
                 /\ last_result_time' = IF record_completed_raises(real_task_id)
                                        THEN last_result_time
                                        ELSE [last_result_time EXCEPT ![endpoint] = now]
         /\ UNCHANGED <<imports, runtime_updates>>
    ELSE UNCHANGED <<blocked, last_result_time, imports, task_info, pendVars, etaVars,
                     logVars>>

\* a log_status call that no other thread interleaves with
log_status(real_task_id, data) ==
    /\ IF real_task_id \notin DOMAIN pending
       THEN UNCHANGED <<blocked, last_result_time, imports, task_info, latest_status,
                        pendVars, etaVars, logVars>>
       ELSE LET task_id == pending[real_task_id].task_id
                func == pending[real_task_id].function_id
                endpoint == pending[real_task_id].endpoint_id
            IN  /\ latest_status' = IF sticky_overwrite(latest_status, task_id)
                                    THEN DictPut(latest_status, task_id, data)
                                    ELSE latest_status
                /\ log_status_tail(real_task_id, data, func, endpoint)
    /\ UNCHANGED <<cfgVars, now, dead_endpoints, temperature, task_id_translation,
                   endpoints_sent_to, transfer_ETAs, scheduled_tasks, workerVars,
                   endpoint_watchdog, xferVars, ingress,
                   imports_required, launches, exclude_all, posted, worker>>

\* the status messages of the set `inputs`, for the real ids handed out so far
\* and for one the scheduler does not know
LogStatusOf(inputs) ==
    \E real_task_id \in {r \in RealIds : r <= executor_submitted + 1}, data \in inputs :
        log_status(real_task_id, data)

LogStatus == LogStatusOf(DataInputs)

\* log_status on an ingress thread while other threads run.  The code takes
\* no lock, so the lookup and the sticky test (lines 237-246), the write of
\* the latest status (line 247) and the rest of the call are steps that the
\* steps of other threads may come between.
log_status_check(th, real_task_id, data) ==
    /\ ingress[th].pc = "idle"
    /\ ingress' =
          IF real_task_id \notin DOMAIN pending THEN ingress
          ELSE [ingress EXCEPT ![th] =
                   [pc |-> IF sticky_overwrite(latest_status, pending[real_task_id].task_id)
                           THEN "write" ELSE "rest",
                    func |-> pending[real_task_id].function_id,
                    endpoint |-> pending[real_task_id].endpoint_id,
                    real_task_id |-> real_task_id,
                    task_id |-> pending[real_task_id].task_id,
                    data |-> data]]
    /\ UNCHANGED <<cfgVars, now, blocked, epVars, taskVars, latest_status, pendVars,
                   etaVars, transfer_ETAs, scheduled_tasks, workerVars,
                   endpoint_watchdog, xferVars, quietVars>>

log_status_write(th) ==
    /\ ingress[th].pc = "write"
    /\ latest_status' = DictPut(latest_status, ingress[th].task_id, ingress[th].data)
    /\ ingress' = [ingress EXCEPT ![th].pc = "rest"]
    /\ UNCHANGED <<cfgVars, now, blocked, epVars, taskVars, pendVars,
                   etaVars, transfer_ETAs, scheduled_tasks, workerVars,
                   endpoint_watchdog, xferVars, quietVars>>

log_status_rest(th) ==
    /\ ingress[th].pc = "rest"
    /\ log_status_tail(ingress[th].real_task_id, ingress[th].data,
                       ingress[th].func, ingress[th].endpoint)
    /\ ingress' = [ingress EXCEPT ![th] = IngressIdle]
    /\ UNCHANGED <<cfgVars, now, dead_endpoints, temperature, task_id_translation,
                   endpoints_sent_to, latest_status, transfer_ETAs, scheduled_tasks,
                   workerVars, endpoint_watchdog, xferVars,
                   imports_required, launches, exclude_all, posted, worker>>

LogStatusCheckOf(inputs) ==
    \E th \in Threads :
        \E real_task_id \in {r \in RealIds : r <= executor_submitted}, data \in inputs :
            log_status_check(th, real_task_id, data)

LogStatusWrite == \E th \in Threads : log_status_write(th)

LogStatusRest == \E th \in Threads : log_status_rest(th)

\* The call in finer steps: for a result, lines 249-257 (up to the update of
\* the runtime predictor) are a step of their own, and lines 258-260 another.
log_status_update(th) ==
    /\ ingress[th].pc = "rest"
    /\ ingress[th].data.result
    /\ IF ingress[th].real_task_id \in DOMAIN pending
       THEN /\ runtime_updates' = runtime_update(runtime_updates, ingress[th].real_task_id)
            /\ ingress' = [ingress EXCEPT ![th].pc = "complete"]
       ELSE /\ ingress' = [ingress EXCEPT ![th] = IngressIdle]
            /\ UNCHANGED runtime_updates
    /\ UNCHANGED <<cfgVars, now, blocked, epVars, taskVars, latest_status, pendVars,
                   etaVars, transfer_ETAs, scheduled_tasks, workerVars,
                   endpoint_watchdog, xferVars, imports, imports_required, launches,
                   exclude_all, posted, worker, execution_log>>

log_status_complete(th) ==
    /\ \/ /\ ingress[th].pc = "complete"
          /\ result_completion(ingress[th].real_task_id, ingress[th].data,
                               ingress[th].endpoint)
          /\ UNCHANGED <<blocked, runtime_updates>>
       \/ /\ ingress[th].pc = "rest"
          /\ ~ingress[th].data.result
          /\ log_status_tail(ingress[th].real_task_id, ingress[th].data,
                             ingress[th].func, ingress[th].endpoint)
    /\ ingress' = [ingress EXCEPT ![th] = IngressIdle]
    /\ UNCHANGED <<cfgVars, now, dead_endpoints, temperature, task_id_translation,
                   endpoints_sent_to, latest_status, transfer_ETAs, scheduled_tasks,
                   workerVars, endpoint_watchdog, xferVars,
                   imports_required, launches, exclude_all, posted, worker>>

LogStatusUpdate == \E th \in Threads : log_status_update(th)

LogStatusComplete == \E th \in Threads : log_status_complete(th)

(***************************************************************************)
(* get_status (lines 282-293): what it returns in the current state.       *)
(***************************************************************************)
get_status(task_id) ==
    IF task_id \notin DOMAIN task_id_translation THEN PyNone
    ELSE IF Cardinality(task_id_translation[task_id]) = 0 THEN StatusPENDING
    ELSE IF task_id \notin DOMAIN latest_status THEN StatusPENDING
    ELSE latest_status[task_id]

(***************************************************************************)
(* register_imports, cold_start and queue_delay (lines 144-147, 295-301,   *)
(* 331-351).                                                               *)
(***************************************************************************)
\* the lists of packages a function is registered with
ImportLists == {<<>>, <<"numpy">>}

register_imports(func, imps) ==
    /\ imports_required' = [imports_required EXCEPT ![func] = imps]
    /\ UNCHANGED <<cfgVars, now, blocked, epVars, taskVars, latest_status, pendVars,
                   etaVars, transfer_ETAs, scheduled_tasks, workerVars,
                   endpoint_watchdog, xferVars, ingress, imports, launches, exclude_all,
                   logVars, posted,
                   worker>>

RegisterImports == \E func \in Funcs, imps \in ImportLists : register_imports(func, imps)

\* import predictor: the predicted time to import a package on an endpoint
import_predictor(pkg, endpoint) == 1

\* faulty variant of line 333: only a WARM endpoint has no launch time
cold_start_launch_time_unless_warm(temp, endpoint) ==
    IF temp = "WARM" THEN 0
    ELSE IF endpoint \in EndpointsWithLaunchTime THEN launch_time
    ELSE 0
\* lines 333-341: the launch time of an endpoint of temperature temp
cold_start_launch_time(temp, endpoint) ==
    IF temp # "COLD" THEN 0
    ELSE IF endpoint \in EndpointsWithLaunchTime THEN launch_time
    ELSE 0

\* lines 344-349: the time to import the packages of the list `required`
\* that are not among `present`
RECURSIVE cold_start_import_time(_, _, _)
cold_start_import_time(required, present, endpoint) ==
    IF required = <<>> THEN 0
    ELSE (IF Head(required) \notin present
          THEN import_predictor(Head(required), endpoint) ELSE 0)
         + cold_start_import_time(Tail(required), present, endpoint)

\* what cold_start(endpoint, func) returns in the current state
cold_start(endpoint, func) ==
    cold_start_launch_time(temperature[endpoint], endpoint)
    + cold_start_import_time(imports_required[func], imports[endpoint], endpoint)

\* what queue_delay(endpoint) returns in the current state
queue_delay(endpoint) == Max(last_task_ETA[endpoint] + queue_error[endpoint], now)

(***************************************************************************)
(* _monitor_tasks (lines 353-453): one pass of its loop.                   *)
(***************************************************************************)
\* the position of task_id in the local map, 0 if it has no entry
sched_index(sch, task_id) ==
    IF \E i \in 1..Len(sch) : sch[i].task_id = task_id
    THEN CHOOSE i \in 1..Len(sch) : sch[i].task_id = task_id
    ELSE 0

\* lines 370-374: the record made of a queue entry
sched_record(info, task_id, end, num) ==
    [function_id |-> info.function_id, payload |-> info.payload,
     headers |-> info.headers, files |-> info.files,
     task_id |-> task_id, endpoint_id |-> end, transfer_num |-> num]

\* lines 363-376: get newly scheduled tasks.  disc counts, per task id, the
\* entries dropped for want of task info and the records overwritten in the map.
RECURSIVE drain(_, _, _)
drain(q, sch, disc) ==
    IF q = <<>> THEN [scheduled |-> sch, discarded |-> disc]
    ELSE LET task_id == Head(q)[1]
             end == Head(q)[2]
             num == Head(q)[3]
             i == sched_index(sch, task_id)
         IN  IF task_id \notin DOMAIN task_info
             THEN drain(Tail(q), sch, [disc EXCEPT ![task_id] = @ + 1])
             ELSE IF i = 0
             THEN drain(Tail(q),
                        Append(sch, sched_record(task_info[task_id], task_id, end, num)),
                        disc)
             ELSE drain(Tail(q),
                        [sch EXCEPT ![i] = sched_record(task_info[task_id], task_id, end, num)],
                        [disc EXCEPT ![task_id] = @ + 1])

\* lines 378-390: filter out the tasks whose transfer has not completed.
\* crashed: the del of line 387 raised KeyError, which ends the thread.
RECURSIVE ready_scan(_, _, _, _)
ready_scan(sch, i, ready, teta) ==
    IF i > Len(sch) THEN [ready |-> ready, transfer_ETAs |-> teta, crashed |-> FALSE]
    ELSE LET info == sch[i]
             transfer_num == info.transfer_num
         IN  IF transfer_num = NoTransfer
             THEN ready_scan(sch, i + 1, ready \cup {info.task_id}, teta)
             ELSE IF transfer_num \in transfers_complete
             THEN IF transfer_num \in DOMAIN teta[info.endpoint_id]
                  THEN ready_scan(sch, i + 1, ready \cup {info.task_id},
                                  [teta EXCEPT ![info.endpoint_id] = DictDel(@, transfer_num)])
                  ELSE [ready |-> ready \cup {info.task_id}, transfer_ETAs |-> teta,
                        crashed |-> TRUE]
             ELSE ready_scan(sch, i + 1, ready, teta)

\* transfer manager: the observed duration of a completed transfer
get_transfer_time(transfer_num) == 1

\* what the worker gets for one task it registers: the duration behind
\* strategy.predict_ETA and the answer of runtime.has_learned
Estimates == [dur : Durs, reliable : BOOLEAN]

\* faulty variant of line 439: the real id is not recorded
translation_add_lost(ids, real_task_id) == ids
\* line 439: self._task_id_translation[task_id].add(real_task_id)
translation_add(ids, real_task_id) == ids \cup {real_task_id}

\* lines 424-441 for one (task_id, real_task_id) pair of the zip: the record
\* gets its ETA, is_ETA_reliable and time_sent, the real id joins the ids of
\* the client task, the record is put into pending
register_first(P, info, real_task_id, est) ==
    [P EXCEPT
       !.task_id_translation[info.task_id] = translation_add(@, real_task_id),
       !.pending = DictPut(@, real_task_id,
           [function_id |-> info.function_id, payload |-> info.payload,
            headers |-> info.headers, files |-> info.files, task_id |-> info.task_id,
            endpoint_id |-> info.endpoint_id, transfer_num |-> info.transfer_num,
            transfer_time |-> IF info.transfer_num = NoTransfer THEN 0
                              ELSE get_transfer_time(info.transfer_num),
            ETA |-> now + est.dur, is_ETA_reliable |-> est.reliable,
            time_sent |-> now])]

\* lines 442-445 for the same pair: the real id joins the pending set of the
\* endpoint, and the ETA of the record becomes the last ETA of the endpoint
register_second(P, endpoint, real_task_id, ETA) ==
    [P EXCEPT
       !.pending_by_endpoint[endpoint] = @ \cup {real_task_id},
       !.last_task_ETA[endpoint] = ETA]

\* lines 423-445 for one (task_id, real_task_id) pair of the zip
register(P, info, real_task_id, est) ==
    register_second(register_first(P, info, real_task_id, est),
                    info.endpoint_id, real_task_id, now + est.dur)

\* lines 423-449: ready_to_send, iterated in the order `order`, zipped with
\* the real ids the executor returned
RECURSIVE register_loop(_, _, _, _, _)
register_loop(P, sch, order, ests, i) ==
    IF i > Len(order) THEN P
    ELSE register_loop(register(P, sch[sched_index(sch, order[i])],
                                executor_submitted + i, ests[i]),
                       sch, order, ests, i + 1)

\* lines 451-453: stop tracking the newly sent tasks
RECURSIVE sched_remove(_, _)
sched_remove(sch, ready) ==
    IF sch = <<>> THEN <<>>
    ELSE IF Head(sch).task_id \in ready THEN sched_remove(Tail(sch), ready)
    ELSE <<Head(sch)>> \o sched_remove(Tail(sch), ready)

\* the answers of the executor to POST /submit
SubmitResponses == {"non-JSON", "Failed", "Success"}

\* line 397: the headers of the POST are those of the first record of the map
post_headers(sch) == sch[1].headers
\* what a POST is remembered by: its headers and the headers of its tasks
post_record(sch, ready) ==
    [headers |-> post_headers(sch),
     batch |-> {sch[sched_index(sch, t)].headers : t \in ready}]
NoPost == [headers |-> "none", batch |-> {}]
\* the worker between two passes of its loop
WorkerIdle == [pc |-> "idle", todo |-> <<>>, half |-> FALSE, ETA |-> 0, ready |-> {}]

monitor_tasks(resp, order, ests) ==
    LET D == drain(scheduled_tasks, scheduled, discarded)
        R == ready_scan(D.scheduled, 1, {}, transfer_ETAs)
        P == register_loop([task_id_translation |-> task_id_translation,
                            pending |-> pending,
                            pending_by_endpoint |-> pending_by_endpoint,
                            last_task_ETA |-> last_task_ETA],
                           D.scheduled, order, ests, 1)
    IN  /\ task_watchdog = "running"
        /\ worker.pc = "idle"
        /\ scheduled_tasks' = <<>>
        /\ discarded' = D.discarded
        /\ transfer_ETAs' = R.transfer_ETAs
        /\ \/ /\ R.crashed
              /\ resp = "non-JSON" /\ order = <<>> /\ ests = <<>>
              /\ task_watchdog' = "crashed"
              /\ scheduled' = D.scheduled
              /\ UNCHANGED <<task_id_translation, pendVars, last_task_ETA,
                             executor_submitted, posted>>
           \/ /\ ~R.crashed /\ R.ready = {}
              /\ resp = "non-JSON" /\ order = <<>> /\ ests = <<>>
              /\ scheduled' = D.scheduled
              /\ UNCHANGED <<task_id_translation, pendVars, last_task_ETA,
                             executor_submitted, task_watchdog, posted>>
           \/ /\ ~R.crashed /\ R.ready # {}
              /\ resp # "Success" /\ order = <<>> /\ ests = <<>>
              /\ scheduled' = D.scheduled
              /\ posted' = post_record(D.scheduled, R.ready)
              /\ UNCHANGED <<task_id_translation, pendVars, last_task_ETA,
                             executor_submitted, task_watchdog>>
           \/ /\ ~R.crashed /\ R.ready # {}
              /\ resp = "Success" /\ order \in Orders(R.ready)
              /\ ests \in [1..Len(order) -> Estimates]
              /\ task_id_translation' = P.task_id_translation
              /\ pending' = P.pending
              /\ pending_by_endpoint' = P.pending_by_endpoint
              /\ last_task_ETA' = P.last_task_ETA
              /\ executor_submitted' = executor_submitted + Len(order)
              /\ scheduled' = sched_remove(D.scheduled, R.ready)
              /\ posted' = post_record(D.scheduled, R.ready)
              /\ UNCHANGED task_watchdog
        /\ UNCHANGED <<cfgVars, now, blocked, epVars, task_info, endpoints_sent_to,
                       latest_status, queue_error, endpoint_watchdog, xferVars, ingress,
                       impVars, launches, exclude_all, logVars, worker>>

MonitorTasks ==
    LET D == drain(scheduled_tasks, scheduled, discarded)
        R == ready_scan(D.scheduled, 1, {}, transfer_ETAs)
    IN  IF R.crashed \/ R.ready = {}
        THEN monitor_tasks("non-JSON", <<>>, <<>>)
        ELSE \E resp \in SubmitResponses :
                IF resp # "Success"
                THEN monitor_tasks(resp, <<>>, <<>>)
                ELSE \E order \in Orders(R.ready) :
                        \E ests \in [1..Len(order) -> Estimates] :
                            monitor_tasks(resp, order, ests)

\* A pass of the worker while other threads run: up to the answer of the
\* executor it is one step (what it writes before is its own map, the queue
\* and transfer_ETAs); the loop of lines 423-449 is then a pair of steps per
\* real id, that the steps of other threads may come between.
monitor_post(resp, order, ests) ==
    LET D == drain(scheduled_tasks, scheduled, discarded)
        R == ready_scan(D.scheduled, 1, {}, transfer_ETAs)
    IN  /\ task_watchdog = "running"
        /\ worker.pc = "idle"
        /\ scheduled_tasks' = <<>>
        /\ discarded' = D.discarded
        /\ transfer_ETAs' = R.transfer_ETAs
        /\ scheduled' = D.scheduled
        /\ \/ /\ R.crashed
              /\ resp = "non-JSON" /\ order = <<>> /\ ests = <<>>
              /\ task_watchdog' = "crashed"
              /\ UNCHANGED <<executor_submitted, posted, worker>>
           \/ /\ ~R.crashed /\ R.ready = {}
              /\ resp = "non-JSON" /\ order = <<>> /\ ests = <<>>
              /\ UNCHANGED <<executor_submitted, task_watchdog, posted, worker>>
           \/ /\ ~R.crashed /\ R.ready # {}
              /\ resp # "Success" /\ order = <<>> /\ ests = <<>>
              /\ posted' = post_record(D.scheduled, R.ready)
              /\ UNCHANGED <<executor_submitted, task_watchdog, worker>>
           \/ /\ ~R.crashed /\ R.ready # {}
              /\ resp = "Success" /\ order \in Orders(R.ready)
              /\ ests \in [1..Len(order) -> Estimates]
              /\ executor_submitted' = executor_submitted + Len(order)
              /\ posted' = post_record(D.scheduled, R.ready)
              /\ worker' = [pc |-> "register",
                            todo |-> [i \in 1..Len(order) |->
                                        [task_id |-> order[i],
                                         real_task_id |-> executor_submitted + i,
                                         est |-> ests[i]]],
                            half |-> FALSE, ETA |-> 0, ready |-> R.ready]
              /\ UNCHANGED task_watchdog
        /\ UNCHANGED <<cfgVars, now, blocked, epVars, taskVars, latest_status, pendVars,
                       etaVars, endpoint_watchdog, xferVars, ingress, impVars, launches,
                       exclude_all, logVars>>

MonitorPost ==
    LET D == drain(scheduled_tasks, scheduled, discarded)
        R == ready_scan(D.scheduled, 1, {}, transfer_ETAs)
    IN  IF R.crashed \/ R.ready = {}
        THEN monitor_post("non-JSON", <<>>, <<>>)
        ELSE \E resp \in SubmitResponses :
                IF resp # "Success"
                THEN monitor_post(resp, <<>>, <<>>)
                ELSE \E order \in Orders(R.ready) :
                        \E ests \in [1..Len(order) -> Estimates] :
                            monitor_post(resp, order, ests)

\* the scheduler state that the loop of lines 423-449 writes
RegState ==
    [task_id_translation |-> task_id_translation, pending |-> pending,
     pending_by_endpoint |-> pending_by_endpoint, last_task_ETA |-> last_task_ETA]

\* lines 424-441 for the next pair of the zip
register_pending ==
    /\ worker.pc = "register" /\ worker.todo # <<>> /\ ~worker.half
    /\ LET h == Head(worker.todo)
           info == scheduled[sched_index(scheduled, h.task_id)]
           P == register_first(RegState, info, h.real_task_id, h.est)
       IN  /\ task_id_translation' = P.task_id_translation
           /\ pending' = P.pending
           /\ worker' = [worker EXCEPT !.half = TRUE, !.ETA = now + h.est.dur]
    /\ UNCHANGED <<cfgVars, now, blocked, epVars, task_info, endpoints_sent_to,
                   latest_status, pending_by_endpoint, etaVars, transfer_ETAs,
                   scheduled_tasks, workerVars, endpoint_watchdog, xferVars, ingress,
                   impVars, launches, exclude_all, logVars, posted>>

\* lines 442-449 for the same pair and, after the last pair, lines 451-453
\* (the map they write is local to the worker)
register_by_endpoint ==
    /\ worker.pc = "register" /\ worker.half
    /\ LET h == Head(worker.todo)
           info == scheduled[sched_index(scheduled, h.task_id)]
           P == register_second(RegState, info.endpoint_id, h.real_task_id, worker.ETA)
       IN  /\ pending_by_endpoint' = P.pending_by_endpoint
           /\ last_task_ETA' = P.last_task_ETA
           /\ IF Tail(worker.todo) = <<>>
              THEN /\ worker' = WorkerIdle
                   /\ scheduled' = sched_remove(scheduled, worker.ready)
              ELSE /\ worker' = [worker EXCEPT !.half = FALSE, !.ETA = 0,
                                               !.todo = Tail(@)]
                   /\ UNCHANGED scheduled
    /\ UNCHANGED <<cfgVars, now, blocked, epVars, taskVars, latest_status, pending,
                   queue_error, transfer_ETAs, scheduled_tasks, task_watchdog,
                   executor_submitted, discarded, endpoint_watchdog, xferVars, ingress,
                   impVars, launches, exclude_all, logVars, posted>>

(***************************************************************************)
(* _send_backups_if_needed (lines 503-533).                                *)
(***************************************************************************)
\* faulty variant of lines 515-524: the reliability of the ETA is not looked at
is_delayed_unreliable_too(info) ==
    LET expected == info.ETA - info.time_sent
        elapsed == now - info.time_sent
    IN  expected > 0 /\ elapsed > backup_delay_threshold * expected
\* lines 515-524 for one pending record: elapsed / expected > threshold, for a
\* reliable ETA.  The predicted durations of the model are positive, and for
\* expected > 0 the quotient exceeds the threshold iff elapsed > threshold * expected.
is_delayed(info) ==
    LET expected == info.ETA - info.time_sent
        elapsed == now - info.time_sent
    IN  /\ info.is_ETA_reliable
        /\ expected > 0
        /\ elapsed > backup_delay_threshold * expected

\* lines 506-524: the task ids to look at, given the dead endpoints
backup_task_ids(dead) ==
    {pending[r].task_id : r \in {r \in DOMAIN pending :
        /\ \E endpoint \in dead : r \in pending_by_endpoint[endpoint]
        /\ pending[r].task_id \in DOMAIN task_info}}
    \cup {pending[r].task_id : r \in {r \in DOMAIN pending : is_delayed(pending[r])}}

\* faulty variant of line 527: one backup too many
backup_skipped_late(sent) == Len(sent) > max_backups + 1
\* line 527: no further backup for a task sent to more than max_backups endpoints
backup_skipped(sent) == Len(sent) > max_backups

\* the choice handed to a _schedule_task call that is not made
NoChoice == CHOOSE c \in Choices : c.endpoint = "A" /\ c.dur = 1 /\ c.handle = FALSE /\ c.tdur = 1

\* lines 526-533: the task ids iterated in the order `order`.  S.raised: the
\* lookup of line 531 raised KeyError, or _schedule_task raised.
RECURSIVE backup_loop(_, _, _, _)
backup_loop(S, order, cs, i) ==
    IF i > Len(order) \/ S.raised \/ ~S.valid THEN S
    ELSE LET task_id == order[i]
         IN  IF backup_skipped(S.endpoints_sent_to[task_id])
             THEN backup_loop([S EXCEPT !.valid = (cs[i] = NoChoice)], order, cs, i + 1)
             ELSE IF task_id \notin DOMAIN S.task_info
             THEN [S EXCEPT !.raised = TRUE, !.valid = (cs[i] = NoChoice)]
             ELSE LET info == S.task_info[task_id]
                  IN  backup_loop(schedule_task(S, info.function_id, info.payload,
                                                info.headers, info.files, task_id, cs[i]),
                                  order, cs, i + 1)

(***************************************************************************)
(* _check_endpoints (lines 455-501): one pass of its loop.                 *)
(***************************************************************************)
\* what get_endpoint_status returns for one endpoint: no status at all, or a
\* most recent status with the age of its timestamp and its active managers
StatusInputs ==
    {st \in [present : BOOLEAN, heartbeat_age : {0, HEARTBEAT_THRESHOLD + 1},
             active_managers : {0, 1}] :
        ~st.present => (st.heartbeat_age = 0 /\ st.active_managers = 0)}
\* the statuses of endpoints that keep a manager active
WarmStatusInputs == {st \in StatusInputs : st.present => st.active_managers > 0}

\* lines 470-482
is_dead_after(end, st) ==
    LET age == now - Max(now - st.heartbeat_age, last_result_time[end])
        is_dead == end \in dead_endpoints
    IN  IF ~st.present THEN is_dead
        ELSE IF ~is_dead /\ age > HEARTBEAT_THRESHOLD THEN TRUE
        ELSE IF is_dead /\ age <= HEARTBEAT_THRESHOLD THEN FALSE
        ELSE is_dead

\* lines 486-495
temperature_after(end, st) ==
    IF ~st.present THEN temperature[end]
    ELSE IF temperature[end] = "WARM" /\ st.active_managers = 0 THEN "COLD"
    ELSE IF temperature[end] # "WARM" /\ st.active_managers > 0 THEN "WARM"
    ELSE temperature[end]

check_endpoints(statuses, order, cs) ==
    LET dead == {end \in endpoints : is_dead_after(end, statuses[end])}
        temp == [end \in endpoints |-> temperature_after(end, statuses[end])]
        cooled == [end \in endpoints |->
                      IF temperature[end] = "WARM" /\ temp[end] = "COLD" THEN 0
                      ELSE launches[end]]
        S == backup_loop([SchedState EXCEPT !.temperature = temp, !.launches = cooled],
                         order, cs, 1)
    IN  /\ endpoint_watchdog = "running"
        /\ order \in Orders(backup_task_ids(dead))
        /\ dead_endpoints' = dead
        /\ SchedCommit(S)
        /\ endpoint_watchdog' = IF S.raised THEN "crashed" ELSE "running"
        /\ UNCHANGED <<cfgVars, now, blocked, last_result_time, latest_status, pendVars,
                       queue_error, workerVars, transfers_complete, ingress,
                       impVars, posted, worker, logVars>>

CheckEndpointsWith(inputs) ==
    \E statuses \in [endpoints -> inputs] :
        LET dead == {end \in endpoints : is_dead_after(end, statuses[end])}
        IN  \E order \in Orders(backup_task_ids(dead)) :
                \E cs \in [1..Len(order) -> Choices] :
                    check_endpoints(statuses, order, cs)

\* the watchdog over endpoints that keep a manager active
CheckEndpoints == CheckEndpointsWith(WarmStatusInputs)

(***************************************************************************)
(* The environment: the clock and the transfer manager.                    *)
(***************************************************************************)
Tick ==
    /\ now < StartTime + Horizon
    /\ now' = now + 1
    /\ UNCHANGED <<cfgVars, blocked, epVars, taskVars, latest_status, pendVars, etaVars,
                   transfer_ETAs, scheduled_tasks, workerVars, endpoint_watchdog,
                   xferVars, ingress, quietVars>>

TransferCompletes ==
    \E transfer_num \in (1..transfers_started) \ transfers_complete :
        /\ transfers_complete' = transfers_complete \cup {transfer_num}
        /\ UNCHANGED <<cfgVars, now, blocked, epVars, taskVars, latest_status, pendVars,
                       etaVars, transfer_ETAs, scheduled_tasks, workerVars,
                       endpoint_watchdog, transfers_started, ingress, quietVars>>

(***************************************************************************)
(* The scheduler after __init__ (lines 35-121).                            *)
(***************************************************************************)
\* a scheduler constructed with the endpoints eps and max_backups = mb
InitWith(eps, mb) ==
    /\ endpoints = eps
    /\ max_backups = mb
    /\ now = StartTime
    /\ blocked = [func \in Funcs |-> {}]
    /\ dead_endpoints = {}
    /\ temperature = [end \in endpoints |-> "WARM"]
    /\ last_result_time = [end \in endpoints |-> 0]
    /\ task_id_translation = <<>>
    /\ task_info = <<>>
    /\ endpoints_sent_to = [task_id \in Tasks |-> <<>>]
    /\ latest_status = <<>>
    /\ pending = <<>>
    /\ pending_by_endpoint = [end \in endpoints |-> {}]
    /\ last_task_ETA = [end \in endpoints |-> 0]
    /\ queue_error = [end \in endpoints |-> 0]
    /\ transfer_ETAs = [end \in endpoints |-> <<>>]
    /\ scheduled_tasks = <<>>
    /\ scheduled = <<>>
    /\ task_watchdog = "running"
    /\ endpoint_watchdog = "running"
    /\ transfers_started = 0
    /\ transfers_complete = {}
    /\ executor_submitted = 0
    /\ discarded = [task_id \in Tasks |-> 0]
    /\ ingress = [th \in Threads |-> IngressIdle]
    /\ imports = [end \in endpoints |-> {}]
    /\ imports_required = [func \in Funcs |-> <<>>]
    /\ launches = [end \in endpoints |-> 0]
    /\ exclude_all = FALSE
    /\ execution_log = [r \in RealIds |-> 0]
    /\ runtime_updates = [r \in RealIds |-> 0]
    /\ posted = NoPost
    /\ worker = WorkerIdle

Init == \E eps \in EndpointConfigs, mb \in 0..MaxBackups : InitWith(eps, mb)

Next ==
    \/ BatchSubmit
    \/ Block
    \/ LogStatus
    \/ MonitorTasks
    \/ CheckEndpoints
    \/ Tick
    \/ TransferCompletes

Spec == Init /\ [][Next]_vars

\* The scheduler with block calls of several ingress threads interleaved.
NextRace ==
    \/ BlockCheck
    \/ BlockAdd
    \/ BatchSubmit
    \/ MonitorTasks
    \/ LogStatus

SpecRace == Init /\ [][NextRace]_vars

\* The scheduler with three endpoints and up to two backups per task, over a
\* clock that stands still.
InitThree == InitWith({"A", "B", "C"}, MaxBackups + 1)

NextThree ==
    \/ BatchSubmit
    \/ LogStatus
    \/ MonitorTasks
    \/ CheckEndpoints
    \/ TransferCompletes

SpecThree == InitThree /\ [][NextThree]_vars

\* The scheduling pipeline and the watchdog with endpoints that lose their
\* managers and get them back, and clients that submit two tasks without
\* files; nothing is sent to the executor.
NoFilePayloads == {pl \in Payloads : Len(pl.globus_files) = 0}

NextCold ==
    \/ BatchSubmitOf(MaxPair, NoFilePayloads, Headers)
    \/ CheckEndpointsWith(StatusInputs)
    \/ RegisterImports

SpecCold == Init /\ [][NextCold]_vars

\* The scheduler with such endpoints, functions that register imports and
\* results that report imports, for one task without files, over a clock that
\* stands still.
NextColdStart ==
    \/ BatchSubmitOf(MaxTasks, NoFilePayloads, Headers)
    \/ CheckEndpointsWith(StatusInputs)
    \/ MonitorTasks
    \/ LogStatusOf(ResultInputs)
    \/ RegisterImports

SpecColdStart == Init /\ [][NextColdStart]_vars

\* The scheduler with two endpoints and up to two backups per task, for one
\* task without files.
InitSiblings == InitWith({"A", "B"}, MaxBackups + 1)

NextSiblings ==
    \/ BatchSubmitOf(MaxTasks, NoFilePayloads, Headers)
    \/ LogStatusOf(PlainInputs)
    \/ MonitorTasks
    \/ CheckEndpoints
    \/ Tick

SpecSiblings == InitSiblings /\ [][NextSiblings]_vars

\* The submission worker under fair scheduling, for one task: the worker
\* thread gets to run its passes, a started transfer completes, and an
\* executor that is asked again and again answers Success at some time.
SubmitSucceeds ==
    \E ready \in SUBSET DOMAIN task_id_translation :
        \E order \in Orders(ready) :
            \E ests \in [1..Len(order) -> Estimates] :
                monitor_tasks("Success", order, ests)

NextLive ==
    \/ BatchSubmit
    \/ TransferCompletes
    \/ MonitorTasks
    \/ LogStatusOf(PlainInputs)

SpecLive ==
    /\ Init
    /\ [][NextLive]_vars
    /\ WF_vars(MonitorTasks)
    /\ WF_vars(TransferCompletes)
    /\ SF_vars(SubmitSucceeds)

\* The scheduling pipeline and the submission worker for two clients, each
\* with its own headers, that submit two tasks in all.
NextHeaders ==
    \/ BatchSubmitOf(MaxPair, Payloads, TwoHeaders)
    \/ TransferCompletes
    \/ MonitorTasks

SpecHeaders == Init /\ [][NextHeaders]_vars

\* The scheduler with the steps of the worker's registration loop and of
\* log_status calls on two ingress threads interleaved, and the watchdog with
\* its backup evaluator, for one task without files.
NextSteps ==
    \/ BatchSubmitOf(MaxTasks, NoFilePayloads, Headers)
    \/ MonitorPost
    \/ register_pending
    \/ register_by_endpoint
    \/ LogStatusCheckOf(PlainInputs)
    \/ LogStatusWrite
    \/ LogStatusRest
    \/ CheckEndpoints

SpecSteps == Init /\ [][NextSteps]_vars

\* The pipeline, the worker and the watchdog with its backup evaluator, with
\* three endpoints and up to two backups per task, over a clock that stands
\* still; no status message arrives.
NextOverwrite ==
    \/ BatchSubmit
    \/ MonitorTasks
    \/ CheckEndpoints
    \/ TransferCompletes

SpecOverwrite == InitThree /\ [][NextOverwrite]_vars

\* The worker and log_status calls of two ingress threads in their finer
\* steps, for one task without files.
NextComplete ==
    \/ BatchSubmitOf(MaxTasks, NoFilePayloads, Headers)
    \/ MonitorTasks
    \/ LogStatusCheckOf(PlainInputs)
    \/ LogStatusWrite
    \/ LogStatusUpdate
    \/ LogStatusComplete

SpecComplete == Init /\ [][NextComplete]_vars

(***************************************************************************)
(* Properties.                                                             *)
(***************************************************************************)
IsPrefix(s, t) == Len(s) <= Len(t) /\ \A i \in 1..Len(s) : s[i] = t[i]
NoDuplicates(s) == \A i, j \in 1..Len(s) : s[i] = s[j] => i = j
\* the pending real ids of a client task
PendingOf(task_id) == {r \in DOMAIN pending : pending[r].task_id = task_id}
\* the dispatches of a client task that still await submission: in the queue,
\* or in the local map of the worker
Awaiting(task_id) ==
    Cardinality({i \in 1..Len(scheduled_tasks) : scheduled_tasks[i][1] = task_id})
    + Cardinality({i \in 1..Len(scheduled) : scheduled[i].task_id = task_id})

\* C1 (sticky-status law): once get_status(t) returns a value that is not
\* PENDING, it never returns PENDING again, whatever log_status calls follow.
C1_StickyStatus ==
    [][\A t \in DOMAIN task_id_translation :
          get_status(t).status # "PENDING" => (get_status(t).status # "PENDING")']_vars

\* a terminal status is recorded for a task that still has a pending real id,
\* so that further status messages for the task are processed
C1_Witness ==
    \E t \in DOMAIN task_id_translation :
        /\ get_status(t).status # "PENDING"
        /\ PendingOf(t) # {}
        /\ Cardinality(task_id_translation[t]) = 2

\* C2 (backup law): a task is dispatched to at most max_backups + 1
\* endpoints; with max_backups = 0 never to a second one.
C2_BackupLaw ==
    \A t \in Tasks : Len(endpoints_sent_to[t]) <= max_backups + 1

\* with max_backups = 0, a task with task info has a real id pending on a dead
\* endpoint and has been sent to one endpoint only
C2_Witness ==
    \E t \in DOMAIN task_info :
        /\ max_backups = 0
        /\ \E r \in PendingOf(t) : pending[r].endpoint_id \in dead_endpoints
        /\ Len(endpoints_sent_to[t]) = 1
        /\ endpoint_watchdog = "running"

\* C3: no function ever has all endpoints blocked.
C3_NotAllBlocked ==
    \A func \in Funcs : Cardinality(blocked[func]) < Cardinality(endpoints)

\* C4: in every state, block(func, e) fails exactly when e is unknown or adding
\* e would leave func without an unblocked endpoint; otherwise it succeeds and
\* e is blocked afterwards; a failed call leaves blocked[func] as it was.
C4_BlockContract ==
    \A func \in Funcs, e \in endpoints \cup {UnknownEndpoint} :
        LET r == block_result(blocked, func, e)
            leaves_none == endpoints \ (blocked[func] \cup {e}) = {}
        IN  /\ (r.status = "Failed") <=> (e \notin endpoints \/ leaves_none)
            /\ r.status = "Success" => e \in r.blocked[func]
            /\ r.status = "Failed" => r.blocked = blocked

\* what the worker finds ready in the pass it would make now
PassScan == ready_scan(drain(scheduled_tasks, scheduled, discarded).scheduled, 1, {},
                       transfer_ETAs)

\* C5: a failed submit attempt leaves every ready task in the local map and
\* creates no pending record, and the worker goes on to its next pass: it
\* never stops.
C5_RetryAfterFailure ==
    [][/\ task_watchdog' = "running"
       /\ \A resp \in {"non-JSON", "Failed"} :
            (/\ ~PassScan.crashed
             /\ PassScan.ready # {}
             /\ monitor_tasks(resp, <<>>, <<>>))
            => /\ \A t \in PassScan.ready : sched_index(scheduled', t) # 0
               /\ pending' = pending]_vars

\* C6 as stated: the real ids of a task are its dispatches minus those still
\* awaiting submission.
C6_NoDispatchLost ==
    \A t \in DOMAIN task_id_translation :
        Cardinality(task_id_translation[t]) = Len(endpoints_sent_to[t]) - Awaiting(t)

\* C6 as amended: the real ids of a task are its dispatches minus those still
\* awaiting submission and minus those the worker discarded (dropped when
\* drained because the task info was gone, or overwritten in the local map).
C6_DispatchAccounting ==
    \A t \in DOMAIN task_id_translation :
        Cardinality(task_id_translation[t]) =
            Len(endpoints_sent_to[t]) - Awaiting(t) - discarded[t]

\* a backup dispatch was dropped by the worker after the original completed
C6_Witness ==
    \E t \in DOMAIN task_id_translation :
        /\ discarded[t] = 1
        /\ Cardinality(task_id_translation[t]) = 1
        /\ Len(endpoints_sent_to[t]) = 2
        /\ Awaiting(t) = 0

\* C7 as stated: no endpoint a task was sent to is blocked for its function.
C7_NoBlockedInSentTo ==
    \A t \in DOMAIN task_info :
        ListSet(endpoints_sent_to[t]) \cap blocked[task_info[t].function_id] = {}

\* C7 as amended: an endpoint that _schedule_task appends to
\* endpoints_sent_to[t] is not in blocked[func] when the call is made.
C7_NotBlockedWhenSent ==
    [][\A t \in Tasks :
          \A i \in (Len(endpoints_sent_to[t]) + 1)..Len(endpoints_sent_to'[t]) :
              /\ t \in DOMAIN task_info'
              /\ endpoints_sent_to'[t][i] \notin blocked[task_info'[t].function_id]]_vars

\* a task was dispatched while an endpoint is blocked for its function
C7_Witness ==
    \E t \in DOMAIN task_info :
        /\ blocked[task_info[t].function_id] # {}
        /\ scheduled_tasks # <<>>
        /\ Len(endpoints_sent_to[t]) = 1
        /\ endpoints_sent_to[t][1] \notin blocked[task_info[t].function_id]

\* C8: endpoints_sent_to[t] only grows by appending and never holds an
\* endpoint twice.
C8_SentToExtends ==
    [][\A t \in Tasks :
          /\ IsPrefix(endpoints_sent_to[t], endpoints_sent_to'[t])
          /\ NoDuplicates(endpoints_sent_to'[t])]_vars

\* a backup was dispatched
C8_Witness ==
    \E t \in Tasks :
        /\ Len(endpoints_sent_to[t]) = 2
        /\ endpoints_sent_to[t][1] # endpoints_sent_to[t][2]

\* the new entries of endpoints_sent_to avoid the endpoints blocked so far
DispatchAvoidsBlocked ==
    \A t \in Tasks :
        \A i \in (Len(endpoints_sent_to[t]) + 1)..Len(endpoints_sent_to'[t]) :
            /\ t \in DOMAIN task_info'
            /\ \A e \in blocked[task_info'[t].function_id] : endpoints_sent_to'[t][i] # e

\* C9 as stated: after log_status has processed an exception of a blocking
\* kind for a pending real id of func on endpoint e, e is blocked for func and
\* the real id is completed; blocked endpoints stay blocked and later
\* dispatches of func avoid them.
C9_BlockedAfterException ==
    [][/\ \A r \in DOMAIN pending, d \in DataInputs :
            (/\ ~d.result
             /\ d.exception \in {"ModuleNotFoundError", "MemoryError"}
             /\ log_status(r, d))
            => /\ pending[r].endpoint_id \in blocked'[pending[r].function_id]
               /\ r \notin DOMAIN pending'
       /\ \A func \in Funcs : blocked[func] \subseteq blocked'[func]
       /\ DispatchAvoidsBlocked]_vars

\* C9 as amended: the real id is completed, and e is blocked for func unless
\* all other endpoints are blocked for func already (block refuses then and
\* blocked[func] stays as it was).
C9_BlockedUnlessLast ==
    [][/\ \A r \in DOMAIN pending, d \in DataInputs :
            (/\ ~d.result
             /\ d.exception \in {"ModuleNotFoundError", "MemoryError"}
             /\ log_status(r, d))
            => LET func == pending[r].function_id
                   e == pending[r].endpoint_id
               IN  /\ r \notin DOMAIN pending'
                   /\ IF Cardinality(blocked[func]) = Cardinality(endpoints) - 1
                      THEN blocked' = blocked
                      ELSE e \in blocked'[func]
       /\ \A func \in Funcs : blocked[func] \subseteq blocked'[func]
       /\ DispatchAvoidsBlocked]_vars

\* an exception of a blocking kind got the endpoint of its task blocked
C9_Witness ==
    \E t \in DOMAIN latest_status, func \in Funcs :
        /\ latest_status[t].exception = "ModuleNotFoundError"
        /\ PendingOf(t) = {}
        /\ endpoints_sent_to[t][1] \in blocked[func]

\* C10: a task gets a backup only if it has a real id pending on an endpoint
\* marked dead, or a pending record with a reliable ETA whose elapsed time is
\* more than backup_delay_threshold times the expected one.
C10_BackupOnlyIfEligible ==
    [][\A t \in DOMAIN task_id_translation :
          Len(endpoints_sent_to'[t]) > Len(endpoints_sent_to[t])
          => \/ \E r \in PendingOf(t) : pending[r].endpoint_id \in dead_endpoints'
             \/ \E r \in PendingOf(t) :
                   /\ pending[r].is_ETA_reliable
                   /\ pending[r].ETA - pending[r].time_sent > 0
                   /\ now - pending[r].time_sent >
                          backup_delay_threshold * (pending[r].ETA - pending[r].time_sent)]_vars

\* a backup was sent for a delayed task with a reliable ETA on an alive endpoint
C10_Witness ==
    \E t \in Tasks :
        /\ Len(endpoints_sent_to[t]) = 2
        /\ dead_endpoints = {}
        /\ \A e \in endpoints : last_result_time[e] = 0
        /\ \E r \in PendingOf(t) :
              /\ pending[r].is_ETA_reliable
              /\ pending[r].endpoint_id = endpoints_sent_to[t][1]

\* C11 (cold-start idempotence): a _schedule_task call that chooses a COLD
\* endpoint leaves it WARMING, so between two scans of the watchdog at most
\* one dispatch finds the endpoint COLD; every later one sees a temperature
\* for which cold_start has no launch time.
C11_ColdStartOnce ==
    [][\A e \in endpoints :
          /\ launches'[e] <= 1
          /\ launches'[e] > launches[e] => temperature'[e] = "WARMING"
          /\ launches'[e] = 1 =>
                /\ temperature'[e] # "COLD"
                /\ cold_start_launch_time(temperature'[e], e) = 0]_vars

\* one batch_submit call sent two tasks to an endpoint that was cold: the first
\* dispatch found it COLD, the second found it WARMING
C11_Witness ==
    \E e \in endpoints :
        /\ e \in EndpointsWithLaunchTime
        /\ launches[e] = 1
        /\ temperature[e] = "WARMING"
        /\ Len(scheduled_tasks) = 2
        /\ scheduled_tasks[1][2] = e /\ scheduled_tasks[2][2] = e
        /\ scheduled_tasks[1][1] # scheduled_tasks[2][1]

\* C12 as stated: a client task with a pending real id has task info.
C12_TaskInfoWhilePending ==
    \A t \in DOMAIN task_id_translation :
        PendingOf(t) # {} => t \in DOMAIN task_info

\* C12 as amended: a client task with a pending real id has task info as long
\* as none of its real ids has completed.
C12_TaskInfoUntilFirstCompletion ==
    \A t \in DOMAIN task_id_translation :
        (PendingOf(t) # {} /\ task_id_translation[t] \subseteq DOMAIN pending)
        => t \in DOMAIN task_info

\* the original and a backup of a task are pending, neither has completed
C12_Witness ==
    \E t \in DOMAIN task_info :
        /\ Cardinality(PendingOf(t)) = 2
        /\ task_id_translation[t] = PendingOf(t)

\* C13: once the first completion has removed task_info[t], the backup
\* evaluator does not re-schedule t, and no pass of it selects t and gets as
\* far as the task_info[t] lookup, which would end the watchdog thread.
C13_NoBackupAfterRemoval ==
    [][/\ \A t \in DOMAIN task_id_translation :
             t \notin DOMAIN task_info => endpoints_sent_to'[t] = endpoints_sent_to[t]
       /\ (endpoint_watchdog = "running" /\ endpoint_watchdog' = "crashed")
          => \A t \in backup_task_ids(dead_endpoints') :
                 ~backup_skipped(endpoints_sent_to[t]) => t \in DOMAIN task_info]_vars

\* C14 (I5): an endpoint without a pending real id has last_task_ETA = 0 and
\* queue_error = 0, so that queue_delay gives the current time.
C14_IdleEndpointNoDelay ==
    \A e \in endpoints :
        pending_by_endpoint[e] = {}
        => /\ last_task_ETA[e] = 0
           /\ queue_error[e] = 0
           /\ queue_delay(e) = now

\* the transfer handles of the dispatches bound for endpoint e that await
\* submission: in the queue, or in the local map of the worker
AwaitingHandles(e) ==
    {scheduled_tasks[i][3] :
        i \in {j \in 1..Len(scheduled_tasks) :
                 scheduled_tasks[j][2] = e /\ scheduled_tasks[j][3] # NoTransfer}}
    \cup {scheduled[i].transfer_num :
        i \in {j \in 1..Len(scheduled) :
                 scheduled[j].endpoint_id = e /\ scheduled[j].transfer_num # NoTransfer}}

\* C15 (I6): the keys of transfer_ETAs[e] are handles of dispatches bound for
\* e that await submission (none stays once its dispatch is submitted, dropped
\* or replaced), and every such handle whose transfer is not complete is a key.
C15_TransferETAsInFlight ==
    \A e \in endpoints :
        /\ DOMAIN transfer_ETAs[e] \subseteq AwaitingHandles(e)
        /\ (AwaitingHandles(e) \ transfers_complete) \subseteq DOMAIN transfer_ETAs[e]

\* every endpoint of some configuration
AllEndpoints == UNION EndpointConfigs
\* the local map of the worker holds a dispatch of task t for endpoint e
InMap(t, e) ==
    \E i \in 1..Len(scheduled) : scheduled[i].task_id = t /\ scheduled[i].endpoint_id = e
\* a real id of task t on endpoint e is in pending
Registered(t, e) ==
    \E r \in DOMAIN pending : pending[r].task_id = t /\ pending[r].endpoint_id = e

\* C16: a dispatch record that the worker drained into its map (its task info
\* was present) is eventually submitted and registered in pending, whatever
\* submit attempts failed before.
C16_DispatchEventuallyRegistered ==
    \A t \in Tasks, e \in AllEndpoints : InMap(t, e) ~> Registered(t, e)

MissingImports(e, func) ==
    {i \in 1..Len(imports_required[func]) : imports_required[func][i] \notin imports[e]}
\* the predicted import times of the packages at the places I of the list req
RECURSIVE ImportTimeOver(_, _, _)
ImportTimeOver(I, req, e) ==
    IF I = {} THEN 0
    ELSE LET i == CHOOSE j \in I : TRUE
         IN  import_predictor(req[i], e) + ImportTimeOver(I \ {i}, req, e)

C18_HeadersOfReadyTask ==
    posted # NoPost => posted.headers \in posted.batch

\* C19 (I1 under interleaving): a log_status call that found its real id in
\* pending and is about to complete it (its message carries a result or an
\* exception) finds the real id in the pending set of its endpoint too.
C19_PendingIndexedWhenObserved ==
    \A th \in Threads :
        ( /\ ingress[th].pc = "rest"
          /\ ingress[th].data.result \/ ingress[th].data.exception # "none"
          /\ ingress[th].real_task_id \in DOMAIN pending )
        => ingress[th].real_task_id \in pending_by_endpoint[ingress[th].endpoint]

\* C20: with log_status calls interleaved, a latest status that is not PENDING
\* is never replaced by PENDING.
C20_StickyUnderInterleaving ==
    [][\A t \in DOMAIN latest_status :
          latest_status[t].status # "PENDING" => latest_status'[t].status # "PENDING"]_vars

\* C21: no call of the strategy has an exclusion set that holds every
\* registered endpoint.
C21_ExclusionProper == ~exclude_all

\* the dispatches (task id, endpoint, transfer handle) in the queue
QueuedDispatches == {scheduled_tasks[i] : i \in 1..Len(scheduled_tasks)}
\* the dispatches in the local map of the worker
MappedDispatches ==
    {<<scheduled[i].task_id, scheduled[i].endpoint_id, scheduled[i].transfer_num>> :
        i \in 1..Len(scheduled)}

\* C22: a dispatch that is in the queue with its task info, or in the map of
\* the worker, is after every step still in the queue or in the map, unless
\* the step registered a real id for its task on its endpoint.
C22_NoDispatchReplaced ==
    [][\A d \in {q \in QueuedDispatches : q[1] \in DOMAIN task_info} \cup MappedDispatches :
          \/ d \in QueuedDispatches' \cup MappedDispatches'
          \/ \E r \in DOMAIN pending' \ DOMAIN pending :
                pending'[r].task_id = d[1] /\ pending'[r].endpoint_id = d[2]]_vars

\* C23: for every real id, execution_log has at most one entry and the
\* runtime predictor was updated at most once.
C23_CompletedAtMostOnce ==
    \A r \in RealIds : execution_log[r] <= 1 /\ runtime_updates[r] <= 1

====
